---- MODULE Spec2Model ----
(***************************************************************************)
(* Model of src/src/plot_functions.py (soundscape-app): the colour ramp    *)
(* built by create_time_color_map, the module-level TOOLTIPS constant and  *)
(* its readers, and the axes/labels loops of get_radar_chart.              *)
(*                                                                         *)
(* Numbers.  Normalized values are kept as exact fractions <<num, den>>.   *)
(* A colour of the plasma colormap is represented by the index of its      *)
(* entry in the colormap's lookup table, and its hex string by the pair    *)
(* <<"#", index>>.  Radar coordinates are integers in units of 1/Unit.     *)
(***************************************************************************)
EXTENDS Integers, Sequences, FiniteSets, TLC

VARIABLES
    H,                 \* number of buckets of time_range (12 in the source)
    tooltips,          \* module-level TOOLTIPS
    hover,             \* tooltips handed to the most recent HoverTool
    pc,                \* per caller: position inside create_time_color_map
    time_range,        \* per caller: local time_range
    full_time_range,   \* per caller: local full_time_range
    normalized_time_range, \* per caller: local normalized_time_range
    colors,            \* per caller: local colors
    hex_colors,        \* per caller: local hex_colors
    result,            \* per caller: value returned by create_time_color_map
    rpc,               \* position inside get_radar_chart
    labels_texts, cos_angles, sin_angles, labels_x, labels_y, \* its arguments
    zipped,            \* the zip object the running for loop iterates
    renderers,         \* renderers added to the figure p so far
    ret                \* figure returned by get_radar_chart

vars == <<H, tooltips, hover, pc, time_range, full_time_range,
          normalized_time_range, colors, hex_colors, result,
          rpc, labels_texts, cos_angles, sin_angles, labels_x, labels_y,
          zipped, renderers, ret>>

rampVars == <<pc, time_range, full_time_range, normalized_time_range,
              colors, hex_colors, result>>

radarVars == <<rpc, labels_texts, cos_angles, sin_angles, labels_x, labels_y,
               zipped, renderers, ret>>

(***************************************************************************)
(* Bounds and program constants                                            *)
(***************************************************************************)
MaxH == 12

NumCallers == 2

MaxRaw == 3

NumBuckets == 12

WayBackOffset == 2

LutSize == 256

ScaleDen == 10

Callers == 1..NumCallers

\* The source fixes the bucket count at NumBuckets (np.arange(0, 12)); the
\* model lets it range over 1..MaxH, which contains NumBuckets, so that the
\* statements made for every bucket count are checked as well.
BucketCounts == 1..MaxH

TOOLTIPS == <<"tooltip fields">>

NoFigure == [figure |-> FALSE]

(***************************************************************************)
(* numpy / matplotlib helpers used by create_time_color_map                *)
(***************************************************************************)
Arange(n) == [i \in 1..n |-> i - 1]

Reverse(s) == [i \in 1..Len(s) |-> s[Len(s) + 1 - i]]

AddScalar(s, k) == [i \in 1..Len(s) |-> s[i] + k]

SeqMax(s) == CHOOSE m \in {s[i] : i \in 1..Len(s)} :
                 \A j \in 1..Len(s) : s[j] <= m

WayBackNoReverse(tr) == tr \o AddScalar(tr, WayBackOffset)

WayBackTrimmed(tr) == tr \o SubSeq(Reverse(tr), 2, Len(tr) - 1)

WayBackOffsetOne(tr) == tr \o AddScalar(Reverse(tr), 1)

FullTimeRange(tr) == tr \o AddScalar(Reverse(tr), WayBackOffset)

NormalizeByForwardLength(full) == [i \in 1..Len(full) |-> <<full[i], Len(full) \div 2>>]

Normalize(full) == [i \in 1..Len(full) |-> <<full[i], SeqMax(full)>>]

\* Colormap.__call__ on a float: scale by N, send N to N-1, truncate;
\* out-of-range values take the under/over colours (first/last entry) and
\* 0/0, a NaN, takes the "bad" entry N+2.
LutIndex(x) ==
    IF x[2] = 0 THEN LutSize + 2
    ELSE LET k == (x[1] * LutSize) \div x[2]
         IN  IF k < 0 THEN 0 ELSE IF k >= LutSize THEN LutSize - 1 ELSE k

Cmap(norm) == [i \in 1..Len(norm) |-> LutIndex(norm[i])]

Rgb2Hex(color) == <<"#", color>>

HexColors(cs) == [i \in 1..Len(cs) |-> Rgb2Hex(cs[i])]

(***************************************************************************)
(* Initial state: every caller is outside the module's functions           *)
(***************************************************************************)
Init ==
    /\ H \in BucketCounts
    /\ tooltips = TOOLTIPS
    /\ hover = [fn |-> "none", tooltips |-> <<>>]
    /\ pc = [c \in Callers |-> "idle"]
    /\ time_range = [c \in Callers |-> <<>>]
    /\ full_time_range = [c \in Callers |-> <<>>]
    /\ normalized_time_range = [c \in Callers |-> <<>>]
    /\ colors = [c \in Callers |-> <<>>]
    /\ hex_colors = [c \in Callers |-> <<>>]
    /\ result = [c \in Callers |-> <<>>]
    /\ rpc = "idle"
    /\ labels_texts = <<>>
    /\ cos_angles = <<>>
    /\ sin_angles = <<>>
    /\ labels_x = <<>>
    /\ labels_y = <<>>
    /\ zipped = <<>>
    /\ renderers = <<>>
    /\ ret = NoFigure

(***************************************************************************)
(* create_time_color_map, one action per statement, run by caller c        *)
(***************************************************************************)
CallTimeColorMap(c) ==
    /\ pc[c] = "idle"
    /\ pc' = [pc EXCEPT ![c] = "line27"]
    /\ time_range' = [time_range EXCEPT ![c] = <<>>]
    /\ full_time_range' = [full_time_range EXCEPT ![c] = <<>>]
    /\ normalized_time_range' = [normalized_time_range EXCEPT ![c] = <<>>]
    /\ colors' = [colors EXCEPT ![c] = <<>>]
    /\ hex_colors' = [hex_colors EXCEPT ![c] = <<>>]
    /\ result' = [result EXCEPT ![c] = <<>>]
    /\ UNCHANGED <<H, tooltips, hover, radarVars>>

Line27(c) ==
    /\ pc[c] = "line27"
    /\ time_range' = [time_range EXCEPT ![c] = Arange(H)]
    /\ pc' = [pc EXCEPT ![c] = "line28"]
    /\ UNCHANGED <<H, tooltips, hover, full_time_range, normalized_time_range,
                   colors, hex_colors, result, radarVars>>

Line28(c) ==
    /\ pc[c] = "line28"
    /\ full_time_range' = [full_time_range EXCEPT ![c] = FullTimeRange(time_range[c])]
    /\ pc' = [pc EXCEPT ![c] = "line30"]
    /\ UNCHANGED <<H, tooltips, hover, time_range, normalized_time_range,
                   colors, hex_colors, result, radarVars>>

Line30(c) ==
    /\ pc[c] = "line30"
    /\ normalized_time_range' =
           [normalized_time_range EXCEPT ![c] = Normalize(full_time_range[c])]
    /\ pc' = [pc EXCEPT ![c] = "line36"]
    /\ UNCHANGED <<H, tooltips, hover, time_range, full_time_range,
                   colors, hex_colors, result, radarVars>>

Line36(c) ==
    /\ pc[c] = "line36"
    /\ colors' = [colors EXCEPT ![c] = Cmap(normalized_time_range[c])]
    /\ pc' = [pc EXCEPT ![c] = "line39"]
    /\ UNCHANGED <<H, tooltips, hover, time_range, full_time_range,
                   normalized_time_range, hex_colors, result, radarVars>>

\* a hex_colors list that lives at module level and is extended by every call
Line39ModuleLevelList(c) ==
    /\ pc[c] = "line39"
    /\ hex_colors' = [d \in Callers |-> hex_colors[d] \o HexColors(colors[c])]
    /\ pc' = [pc EXCEPT ![c] = "line42"]
    /\ UNCHANGED <<H, tooltips, hover, time_range, full_time_range,
                   normalized_time_range, colors, result, radarVars>>

Line39(c) ==
    /\ pc[c] = "line39"
    /\ hex_colors' = [hex_colors EXCEPT ![c] = HexColors(colors[c])]
    /\ pc' = [pc EXCEPT ![c] = "line42"]
    /\ UNCHANGED <<H, tooltips, hover, time_range, full_time_range,
                   normalized_time_range, colors, result, radarVars>>

Line42(c) ==
    /\ pc[c] = "line42"
    /\ result' = [result EXCEPT ![c] = hex_colors[c]]
    /\ pc' = [pc EXCEPT ![c] = "returned"]
    /\ UNCHANGED <<H, tooltips, hover, time_range, full_time_range,
                   normalized_time_range, colors, hex_colors, radarVars>>

\* the caller drops the frame and is free to call again
Resume(c) ==
    /\ pc[c] = "returned"
    /\ pc' = [pc EXCEPT ![c] = "idle"]
    /\ UNCHANGED <<H, tooltips, hover, time_range, full_time_range,
                   normalized_time_range, colors, hex_colors, result, radarVars>>

(***************************************************************************)
(* The readers of the module-level TOOLTIPS                                *)
(***************************************************************************)
GetTimeseriesPlot(c) ==
    /\ pc[c] = "idle"
    /\ hover' = [fn |-> "get_timeseries_plot", tooltips |-> tooltips]
    /\ UNCHANGED <<H, tooltips, rampVars, radarVars>>

GetRelPlot(c) ==
    /\ pc[c] = "idle"
    /\ hover' = [fn |-> "get_rel_plot", tooltips |-> tooltips]
    /\ UNCHANGED <<H, tooltips, rampVars, radarVars>>

Next ==
    \/ \E c \in Callers : CallTimeColorMap(c)
    \/ \E c \in Callers : Line27(c)
    \/ \E c \in Callers : Line28(c)
    \/ \E c \in Callers : Line30(c)
    \/ \E c \in Callers : Line36(c)
    \/ \E c \in Callers : Line39(c)
    \/ \E c \in Callers : Line42(c)
    \/ \E c \in Callers : Resume(c)
    \/ \E c \in Callers : GetTimeseriesPlot(c)
    \/ \E c \in Callers : GetRelPlot(c)

Spec == Init /\ [][Next]_vars

(***************************************************************************)
(* The radar layout handed to get_radar_chart by its caller: N angles      *)
(* 2*pi*i/N, their cosines and sines, and the label anchors, which are the *)
(* spoke endpoints scaled by a constant greater than 1.  Angles are        *)
(* counted in steps of 1/TurnSteps of a turn; coordinates in 1/10000.      *)
(***************************************************************************)
TurnSteps == 24

CategoryCounts == {1, 2, 3, 4, 6, 8}

LabelScales == {11, 12, 13}

QuarterCos == <<10000, 9660, 8660, 7070, 5000, 2590, 0>>

CosSteps(a) ==
    LET q == TurnSteps \div 4
        b == a % TurnSteps
    IN  IF b <= q THEN QuarterCos[b + 1]
        ELSE IF b <= 2 * q THEN -QuarterCos[2 * q - b + 1]
        ELSE IF b <= 3 * q THEN -QuarterCos[b - 2 * q + 1]
        ELSE QuarterCos[4 * q - b + 1]

SinSteps(a) == CosSteps(a + 3 * (TurnSteps \div 4))

Angles(N) == [i \in 1..N |-> (i - 1) * (TurnSteps \div N)]

RadarLayout(N, scale) ==
    [labels_texts |-> [i \in 1..N |-> i],
     cos_angles   |-> [i \in 1..N |-> CosSteps(Angles(N)[i])],
     sin_angles   |-> [i \in 1..N |-> SinSteps(Angles(N)[i])],
     labels_x     |-> [i \in 1..N |-> (CosSteps(Angles(N)[i]) * scale) \div ScaleDen],
     labels_y     |-> [i \in 1..N |-> (SinSteps(Angles(N)[i]) * scale) \div ScaleDen]]

RawCounts == {0} \cup {n \in CategoryCounts : n <= MaxRaw}

Prefix(s, n) == SubSeq(s, 1, n)

(***************************************************************************)
(* get_radar_chart                                                         *)
(***************************************************************************)
Min2(a, b) == IF a <= b THEN a ELSE b

Zip2(a, b) == [i \in 1..Min2(Len(a), Len(b)) |-> <<a[i], b[i]>>]

Zip3(a, b, c) ==
    [i \in 1..Min2(Len(a), Min2(Len(b), Len(c))) |-> <<a[i], b[i], c[i]>>]

AxesZipDropLast ==
    Prefix(Zip2(cos_angles, sin_angles), Min2(Len(cos_angles), Len(sin_angles)) - 1)

AxesZip == Zip2(cos_angles, sin_angles)

LabelsZipOnSpokes == Zip3(labels_texts, cos_angles, sin_angles)

LabelsZip == Zip3(labels_texts, labels_x, labels_y)

LineRenderer(cos_angle, sin_angle) ==
    [glyph |-> "line", x |-> <<0, cos_angle>>, y |-> <<0, sin_angle>>, text |-> <<>>]

TextRenderer(label_text, label_x, label_y) ==
    [glyph |-> "text", x |-> <<label_x>>, y |-> <<label_y>>, text |-> <<label_text>>]

PatchRenderer ==
    [glyph |-> "patch", x |-> <<>>, y |-> <<>>, text |-> <<>>]

\* the caller passes a layout computed for N categories
CallRadarChartLayout ==
    /\ rpc = "idle"
    /\ \E N \in CategoryCounts, scale \in LabelScales :
           LET lay == RadarLayout(N, scale)
           IN  /\ labels_texts' = lay.labels_texts
               /\ cos_angles' = lay.cos_angles
               /\ sin_angles' = lay.sin_angles
               /\ labels_x' = lay.labels_x
               /\ labels_y' = lay.labels_y
    /\ rpc' = "line133"
    /\ zipped' = <<>>
    /\ renderers' = <<>>
    /\ ret' = NoFigure
    /\ UNCHANGED <<H, tooltips, hover, rampVars>>

\* the caller passes five sequences whose lengths need not agree
CallRadarChartRaw ==
    /\ rpc = "idle"
    /\ \E N \in RawCounts, scale \in LabelScales :
         \E nt, nc, ns, nx, ny \in 0..N :
           LET lay == RadarLayout(N, scale)
           IN  /\ labels_texts' = Prefix(lay.labels_texts, nt)
               /\ cos_angles' = Prefix(lay.cos_angles, nc)
               /\ sin_angles' = Prefix(lay.sin_angles, ns)
               /\ labels_x' = Prefix(lay.labels_x, nx)
               /\ labels_y' = Prefix(lay.labels_y, ny)
    /\ rpc' = "line133"
    /\ zipped' = <<>>
    /\ renderers' = <<>>
    /\ ret' = NoFigure
    /\ UNCHANGED <<H, tooltips, hover, rampVars>>

\* p = figure(...); the first for statement builds its zip
Line133 ==
    /\ rpc = "line133"
    /\ renderers' = <<>>
    /\ zipped' = AxesZip
    /\ rpc' = "line139"
    /\ UNCHANGED <<H, tooltips, hover, rampVars, labels_texts, cos_angles,
                   sin_angles, labels_x, labels_y, ret>>

\* one pass of the axes loop, or its exit into the labels loop
Line139 ==
    /\ rpc = "line139"
    /\ IF zipped # <<>>
       THEN /\ renderers' = Append(renderers, LineRenderer(Head(zipped)[1], Head(zipped)[2]))
            /\ zipped' = Tail(zipped)
            /\ rpc' = "line139"
       ELSE /\ renderers' = renderers
            /\ zipped' = LabelsZip
            /\ rpc' = "line143"
    /\ UNCHANGED <<H, tooltips, hover, rampVars, labels_texts, cos_angles,
                   sin_angles, labels_x, labels_y, ret>>

\* one pass of the labels loop, or its exit
Line143 ==
    /\ rpc = "line143"
    /\ IF zipped # <<>>
       THEN /\ renderers' = Append(renderers,
                   TextRenderer(Head(zipped)[1], Head(zipped)[2], Head(zipped)[3]))
            /\ zipped' = Tail(zipped)
            /\ rpc' = "line143"
       ELSE /\ renderers' = renderers
            /\ zipped' = <<>>
            /\ rpc' = "line154"
    /\ UNCHANGED <<H, tooltips, hover, rampVars, labels_texts, cos_angles,
                   sin_angles, labels_x, labels_y, ret>>

Line154 ==
    /\ rpc = "line154"
    /\ renderers' = Append(renderers, PatchRenderer)
    /\ rpc' = "line178"
    /\ UNCHANGED <<H, tooltips, hover, rampVars, labels_texts, cos_angles,
                   sin_angles, labels_x, labels_y, zipped, ret>>

\* a chart function that refuses to hand back a figure without axes
Line178RejectEmpty ==
    /\ rpc = "line178"
    /\ ret' = IF Len(renderers) > 1
              THEN [figure |-> TRUE, renderers |-> renderers]
              ELSE NoFigure
    /\ rpc' = "returned"
    /\ UNCHANGED <<H, tooltips, hover, rampVars, labels_texts, cos_angles,
                   sin_angles, labels_x, labels_y, zipped, renderers>>

Line178 ==
    /\ rpc = "line178"
    /\ ret' = [figure |-> TRUE, renderers |-> renderers]
    /\ rpc' = "returned"
    /\ UNCHANGED <<H, tooltips, hover, rampVars, labels_texts, cos_angles,
                   sin_angles, labels_x, labels_y, zipped, renderers>>

\* the caller hands the figure on and drops the frame
ResumeRadar ==
    /\ rpc = "returned"
    /\ rpc' = "idle"
    /\ labels_texts' = <<>>
    /\ cos_angles' = <<>>
    /\ sin_angles' = <<>>
    /\ labels_x' = <<>>
    /\ labels_y' = <<>>
    /\ zipped' = <<>>
    /\ renderers' = <<>>
    /\ ret' = NoFigure
    /\ UNCHANGED <<H, tooltips, hover, rampVars>>

InitRadar == Init /\ H = NumBuckets

NextRadar ==
    \/ CallRadarChartLayout
    \/ CallRadarChartRaw
    \/ Line133
    \/ Line139
    \/ Line143
    \/ Line154
    \/ Line178
    \/ ResumeRadar

SpecRadar == InitRadar /\ [][NextRadar]_vars

NextLayout ==
    \/ CallRadarChartLayout
    \/ Line133
    \/ Line139
    \/ Line143
    \/ Line154
    \/ Line178
    \/ ResumeRadar

SpecLayout == InitRadar /\ [][NextLayout]_vars

(***************************************************************************)
(* Properties of create_time_color_map                                     *)
(***************************************************************************)
Returned(c) == pc[c] = "returned"

HasFull(c) == pc[c] \in {"line30", "line36", "line39", "line42", "returned"}

HasNormalized(c) == pc[c] \in {"line36", "line39", "line42", "returned"}

GradientAt(num, den) == Rgb2Hex(LutIndex(<<num, den>>))

\* C1 as stated, at the bucket count of the source: the ramp over H = 12
\* buckets has exactly 2H-2 entries, that is, create_time_color_map
\* returns exactly 22 hex colours.
C1_Original ==
    \A c \in Callers : Returned(c) /\ H = NumBuckets =>
        /\ Len(result[c]) = 2 * H - 2
        /\ Len(result[c]) = 22

\* C1 amended: a ramp over H buckets has exactly 2H entries (both halves
\* keep all H indices), and the ramp of create_time_color_map (H = 12)
\* has exactly 24 hex colours.
C1_RampLength ==
    \A c \in Callers : Returned(c) =>
        /\ Len(result[c]) = 2 * H
        /\ (H = NumBuckets => Len(result[c]) = 24)

C1_Witness ==
    \E c \in Callers : Returned(c) /\ H = NumBuckets /\ Len(result[c]) = 24

\* C2 as stated: the first colour of the returned ramp is the gradient at
\* normalized value 0 and the last colour is the gradient at value 1.
C2_Original ==
    \A c \in Callers : Returned(c) /\ H = NumBuckets =>
        /\ result[c][1] = GradientAt(0, 1)
        /\ result[c][Len(result[c])] = GradientAt(1, 1)

\* C2 amended: the first colour is the gradient at normalized value 0, the
\* last colour is the gradient at value 2/(H+1) (2/13 for H = 12), and the
\* gradient at value 1 is the colour at position H+1, the first entry of
\* the way back.
C2_RampEnds ==
    \A c \in Callers : Returned(c) =>
        /\ result[c][1] = GradientAt(0, 1)
        /\ result[c][Len(result[c])] = GradientAt(WayBackOffset, H + 1)
        /\ result[c][H + 1] = GradientAt(1, 1)

C2_Witness ==
    \E c \in Callers :
        /\ Returned(c)
        /\ H = NumBuckets
        /\ result[c][Len(result[c])] # GradientAt(1, 1)

\* C3: with L the length of the index sequence, for every position i of
\* the ascending half the index at the mirrored position equals the index
\* at position i plus the constant offset 2.
C3_MirrorOffset ==
    \A c \in Callers : HasFull(c) =>
        LET full == full_time_range[c]
            L == Len(full)
        IN  /\ L = 2 * Len(time_range[c])
            /\ \A i \in 1..Len(time_range[c]) :
                   full[L + 1 - i] = full[i] + 2

C3_Witness ==
    \E c \in Callers :
        /\ HasFull(c)
        /\ H = NumBuckets
        /\ full_time_range[c][Len(full_time_range[c])] = full_time_range[c][1] + 2

Abs(x) == IF x < 0 THEN -x ELSE x

\* C4 as stated: every two adjacent index values of the combined sequence,
\* the pair at the join of the two halves included, differ by at most 1.
C4_Original ==
    \A c \in Callers : HasFull(c) /\ H = NumBuckets =>
        \A j \in 1..(Len(full_time_range[c]) - 1) :
            Abs(full_time_range[c][j + 1] - full_time_range[c][j]) <= 1

\* C4 amended: the two index values at the join of the forward sequence
\* and the way back differ by exactly 2 (the offset); every other pair of
\* adjacent index values differs by exactly 1.
C4_JoinJump ==
    \A c \in Callers : HasFull(c) =>
        LET full == full_time_range[c]
            n == Len(time_range[c])
        IN  \A j \in 1..(Len(full) - 1) :
                Abs(full[j + 1] - full[j]) = IF j = n THEN 2 ELSE 1

C4_Witness ==
    \E c \in Callers :
        /\ HasFull(c)
        /\ H = NumBuckets
        /\ full_time_range[c][H + 1] - full_time_range[c][H] = 2

\* C5: the index sequence is strictly increasing from its first element
\* up to a single peak and strictly decreasing from the peak to its last
\* element.
C5_RisesThenFalls ==
    \A c \in Callers : HasFull(c) =>
        LET full == full_time_range[c]
            L == Len(full)
        IN  \E p \in 1..L :
                /\ \A j \in 1..(p - 1) : full[j] < full[j + 1]
                /\ \A j \in p..(L - 1) : full[j] > full[j + 1]
                /\ \A j \in 1..L : j # p => full[j] < full[p]

C5_Witness ==
    \E c \in Callers :
        /\ HasFull(c)
        /\ H = NumBuckets
        /\ full_time_range[c][H] < full_time_range[c][H + 1]
        /\ full_time_range[c][H + 1] > full_time_range[c][H + 2]

\* C6: every normalized value k/max lies in [0, 1], i.e. 0 <= k <= max,
\* and the values 0 and 1 are both attained in the sequence.
C6_NormalizedRange ==
    \A c \in Callers : HasNormalized(c) =>
        LET norm == normalized_time_range[c]
        IN  /\ Len(norm) = Len(full_time_range[c])
            /\ \A i \in 1..Len(norm) :
                   /\ norm[i][1] = full_time_range[c][i]
                   /\ norm[i][2] > 0
                   /\ 0 <= norm[i][1]
                   /\ norm[i][1] <= norm[i][2]
            /\ \E i \in 1..Len(norm) : norm[i][1] = 0
            /\ \E i \in 1..Len(norm) : norm[i][1] = norm[i][2]

C6_Witness ==
    \E c \in Callers :
        /\ HasNormalized(c)
        /\ H = NumBuckets
        /\ normalized_time_range[c][1] = <<0, 13>>
        /\ normalized_time_range[c][H + 1] = <<13, 13>>

\* C8: no function writes module-level state and every call of
\* create_time_color_map returns the same tuple, the one determined by the
\* bucket count alone, whatever calls ran before it or are interleaved
\* with it.
C8_PureFunction ==
    /\ tooltips = TOOLTIPS
    /\ \A c \in Callers : Returned(c) =>
           /\ Len(result[c]) = 2 * H
           /\ \A i \in 1..H :
                  /\ result[c][i] = GradientAt(i - 1, H + 1)
                  /\ result[c][2 * H + 1 - i] = GradientAt(i + 1, H + 1)
    /\ \A c, d \in Callers : Returned(c) /\ Returned(d) => result[c] = result[d]

C8_Witness ==
    \E c, d \in Callers :
        /\ c # d
        /\ Returned(c)
        /\ pc[d] \in {"line30", "line36", "line39"}
        /\ hover.fn # "none"
        /\ H = NumBuckets

(***************************************************************************)
(* Properties of get_radar_chart                                           *)
(***************************************************************************)
IsLine(r) == r.glyph = "line"

IsText(r) == r.glyph = "text"

Spokes == SelectSeq(ret.renderers, IsLine)

Labels == SelectSeq(ret.renderers, IsText)

Sq(x) == x * x

NoCategories ==
    /\ Len(labels_texts) = 0
    /\ Len(cos_angles) = 0
    /\ Len(sin_angles) = 0
    /\ Len(labels_x) = 0
    /\ Len(labels_y) = 0

SameLengths ==
    /\ Len(cos_angles) = Len(labels_texts)
    /\ Len(sin_angles) = Len(labels_texts)
    /\ Len(labels_x) = Len(labels_texts)
    /\ Len(labels_y) = Len(labels_texts)

\* C7 as stated: a radar chart construction for N = 0 categories fails
\* instead of returning a result, so no figure is produced for it.
C7_Original ==
    rpc = "returned" /\ NoCategories => ret = NoFigure

\* C7 amended: for N = 0 categories get_radar_chart does not fail; it
\* returns a figure that holds no spoke and no label, only the polygon
\* patch.  (create_time_color_map takes no count at all.)
C7_EmptyRadarReturnsFigure ==
    rpc = "returned" /\ NoCategories =>
        /\ ret.figure
        /\ ret.renderers = <<PatchRenderer>>

C7_Witness ==
    /\ rpc = "returned"
    /\ NoCategories
    /\ ret.figure
    /\ Len(ret.renderers) = 1

C10_Original ==
    rpc = "returned" =>
        /\ Len(Spokes) = Len(labels_texts)
        /\ Len(Spokes) = Len(cos_angles)
        /\ Len(Spokes) = Len(sin_angles)
        /\ Len(Labels) = Len(labels_texts)
        /\ Len(Labels) = Len(labels_x)
        /\ Len(Labels) = Len(labels_y)

\* C10 amended: get_radar_chart draws one spoke per pair of
\* zip(cos_angles, sin_angles) and one label per triple of
\* zip(labels_texts, labels_x, labels_y), in input order and none twice:
\* min(len(cos_angles), len(sin_angles)) spokes from (0, 0) to
\* (cos_angles[i], sin_angles[i]) and min(len(labels_texts), len(labels_x),
\* len(labels_y)) labels labels_texts[i] at (labels_x[i], labels_y[i]).
\* These are exactly N spokes and N labels when all five sequences have
\* length N; elements beyond the shortest sequence are skipped.
C10_SpokesAndLabelsPerZip ==
    rpc = "returned" =>
        LET ns == Min2(Len(cos_angles), Len(sin_angles))
            nl == Min2(Len(labels_texts), Min2(Len(labels_x), Len(labels_y)))
        IN  /\ ret.renderers =
                   [i \in 1..ns |-> LineRenderer(cos_angles[i], sin_angles[i])]
                   \o [i \in 1..nl |->
                          TextRenderer(labels_texts[i], labels_x[i], labels_y[i])]
                   \o <<PatchRenderer>>
            /\ SameLengths =>
                   Len(Spokes) = Len(labels_texts) /\ Len(Labels) = Len(labels_texts)

C10_Witness ==
    /\ rpc = "returned"
    /\ Len(labels_texts) = 3
    /\ Len(cos_angles) = 3
    /\ Len(sin_angles) = 2
    /\ Len(labels_x) = 1
    /\ Len(Spokes) = 2
    /\ Len(Labels) = 1

====
